---- MODULE Spec2Model ----
(***************************************************************************)
(* Model of the Chatwoot <-> Botpress bridge (src/app.py).                 *)
(*                                                                         *)
(* The service is one uvicorn process running one asyncio event loop.      *)
(* The webhook handler chatwoot_webhook is an `async def` whose only       *)
(* suspension point is `await request.json()`; every outbound call is a    *)
(* blocking `requests` call made on the event-loop thread.  An invocation  *)
(* is therefore modelled as a frame (its local variables and its position  *)
(* pc) whose steps after the await run while it holds the event loop.      *)
(* JSON scalars (ids, texts, null) are modelled as strings; JSON objects   *)
(* as records whose DOMAIN is the set of keys present.                     *)
(***************************************************************************)
EXTENDS Integers, Sequences, FiniteSets, TLC

(* ------------------------------ bounds -------------------------------- *)
\* number of webhook requests that can be in flight at the same time
NumInv == 2
\* number of webhook events the support platform delivers in one run
MaxEvents == 2
\* largest inbox roster the platform reports
MaxRoster == 2

(* --------------------------- JSON helpers ----------------------------- *)
\* Python None / JSON null
None == "None"

\* dict.get(key, default)
Get(d, k, dflt) == IF k \in DOMAIN d THEN d[k] ELSE dflt

\* the {} used as default of data.get("conversation", {}) and .get("meta", {})
EmptyDict == [k \in {} |-> None]

\* a None test in place of the truthiness test
FalsyOnlyNone(x) == x = None

\* truthiness of a str/None value: `not x` is true of None and of ""
Falsy(x) == x = None \/ x = ""

(* ------------------------- inbound payloads --------------------------- *)
EventKinds == {"conversation_resolved", "message_created"}
MessageTypes == {"incoming", "outgoing"}
Statuses == {"open", "pending"}
\* conversation.meta.assignee: key missing, JSON null, or an agent object
Assignees == {"missing", None, "agent:3"}

Conv(st, a) ==
  IF a = "missing"
    THEN [id |-> "42", status |-> st]
    ELSE [id |-> "42", status |-> st, meta |-> [assignee |-> a]]

Payload(ev, mt, st, a) ==
  [event |-> ev, id |-> "7", message_type |-> mt, content |-> "hi",
   conversation |-> Conv(st, a)]

\* Scenario A of the specification: no event key, no meta key
ScenarioA ==
  [message_type |-> "incoming", content |-> "hi",
   conversation |-> [id |-> "42", status |-> "open"]]

\* the shape Chatwoot sends for a resolution: the conversation itself
ResolvedShape ==
  [event |-> "conversation_resolved", id |-> "42", status |-> "resolved",
   meta |-> [assignee |-> "agent:3"]]

Payloads ==
  { Payload(ev, mt, st, a) :
      ev \in EventKinds, mt \in MessageTypes, st \in Statuses, a \in Assignees }
  \cup {ScenarioA, ResolvedShape}

\* request bodies: a JSON object, a JSON array, or bytes that are not JSON
Bodies ==
  { [kind |-> "object", value |-> p] : p \in Payloads }
  \cup { [kind |-> "array", value |-> EmptyDict],
         [kind |-> "invalid", value |-> EmptyDict] }

(* ------------------------ automation replies -------------------------- *)
\* a URL as its sequence of path tokens; "/" is the separator
UrlDoc == <<"https:", "/", "/", "x", "/", "files", "/", "doc.pdf">>
UrlPng == <<"https:", "/", "/", "x", "/", "y.png">>
UrlOgg == <<"https:", "/", "/", "x", "/", "a.ogg">>
UrlMp4 == <<"https:", "/", "/", "x", "/", "v.mp4">>

BotResponses ==
  { [responses |-> << [type |-> "text", text |-> "hello!"] >>],
    [responses |-> << [type |-> "text", text |-> "handoff"] >>],
    [responses |-> << [type |-> "text", text |-> "one"],
                      [type |-> "text", text |-> "two"] >>],
    [responses |-> << [type |-> "text", text |-> ""] >>],
    [responses |-> << [type |-> "typing"] >>],
    [responses |-> << >>],
    [error |-> "bot not found"],
    [responses |-> << [type |-> "file", file |-> UrlDoc, title |-> "doc"] >>],
    [responses |-> << [type |-> "image", image |-> UrlPng, title |-> "pic"] >>],
    [responses |-> << [type |-> "audio", audio |-> UrlOgg, title |-> "snd"] >>],
    [responses |-> << [type |-> "video", video |-> UrlMp4, title |-> "mov"] >>] }

\* no reply received (yet)
NoReply == [none |-> TRUE]

\* os.path.basename: the tokens after the last "/"
RECURSIVE Basename(_)
Basename(url) ==
  IF url = << >> THEN << >>
  ELSE IF url[Len(url)] = "/" THEN << >>
  ELSE Append(Basename(SubSeq(url, 1, Len(url) - 1)), url[Len(url)])

\* answers of the blob download: HTTP status and Content-Type header (if any)
Downloads ==
  { [status |-> "200", headers |-> [ContentType |-> "image/png"]],
    [status |-> "200", headers |-> EmptyDict],
    [status |-> "404", headers |-> EmptyDict] }

(* ------------------------------ rosters ------------------------------- *)
AgentPool == <<"5", "9", "7", "11">>

RosterOf(n) == [k \in 1..n |-> [id |-> AgentPool[k]]]

\* payloads of GET inbox_members: [] .. MaxRoster members, or a member without id
Rosters ==
  { RosterOf(n) : n \in 0..MaxRoster } \cup { << [name |-> "ghost"] >> }

(* ------------------------------- state -------------------------------- *)
VARIABLES
  cursor,      \* last_assigned_agent_index, the process-wide rotation cursor
  inv,         \* the frames of the webhook invocations, one per request slot
  delivered,   \* number of webhook events received so far
  tempfiles,   \* temporary files present on disk (named by the creating event)
  selections   \* history of completed agent selections, oldest first

vars == <<cursor, inv, delivered, tempfiles, selections>>

Slots == 1..NumInv

NoOutcome == [status |-> "none", http |-> 0, message |-> "", exc |-> 0]

\* a request slot with no invocation in it
Blank ==
  [pc |-> "idle", eid |-> 0, hung |-> FALSE,
   body |-> "", data |-> EmptyDict, message_type |-> "", content |-> "",
   conversation_id |-> "", conversation_assignee |-> "",
   bot_response |-> NoReply, bot_text |-> "", file_url |-> << >>,
   filename |-> << >>, mime_type |-> "", temp_file_path |-> 0,
   members |-> << >>, seen |-> -1, human_agent_id |-> None,
   calls |-> << >>, outcome |-> NoOutcome]

\* positions at which the frame is not on the event-loop thread
Parked == {"idle", "await_json"}

\* positions at which the frame is blocked inside an outbound HTTP call
CallSites ==
  {"assign_bot", "update_status", "send_to_botpress", "download",
   "send_attachment", "send_notice", "list_members", "assign_human",
   "send_text"}

\* a free-threaded scheduler: any frame may step at any time
CanRunThreaded(i) == ~inv[i].hung

\* the single event loop: a frame steps only while no other frame is between
\* its `await request.json()` and its return, and while it is not stuck
CanRun(i) ==
  /\ ~inv[i].hung
  /\ \A j \in Slots \ {i} : inv[j].pc \in Parked

(* ------------------------- handler primitives ------------------------- *)
\* return JSONResponse(content={status, message|reason}, status_code)
Return(f, status, http, message) ==
  [f EXCEPT !.pc = "done",
            !.outcome = [status |-> status, http |-> http,
                         message |-> message, exc |-> 0]]

\* lines 228-229: every exception raised in the handler body is caught and
\* answered with status "error", HTTP 500; code is the status_code the
\* raised HTTPException carried (0 when the exception is not an HTTPException)
Raise(f, code, detail) ==
  [f EXCEPT !.pc = "done",
            !.outcome = [status |-> "error", http |-> 500,
                         message |-> detail, exc |-> code]]

\* an outbound call and its result, appended to the invocation's call log
Call(f, op, conv, arg, res) ==
  [f EXCEPT !.calls = Append(@, [op |-> op, conv |-> conv, arg |-> arg, res |-> res])]

Results == {"ok", "fail"}

Step(i, f) == inv' = [inv EXCEPT ![i] = f]

(* ------------------------------ actions ------------------------------- *)
Init ==
  /\ cursor = -1
  /\ inv = [i \in Slots |-> Blank]
  /\ delivered = 0
  /\ tempfiles = {}
  /\ selections = << >>

\* the platform POSTs an event to /botpress; the handler starts and suspends
\* at `await request.json()`
Receive(i) ==
  /\ inv[i].pc = "idle"
  /\ delivered < MaxEvents
  /\ delivered' = delivered + 1
  /\ Step(i, [Blank EXCEPT !.pc = "await_json", !.eid = delivered + 1])
  /\ UNCHANGED <<cursor, tempfiles, selections>>

\* line 178: message_type == "incoming" and conversation_assignee is None
IsEligible(f) == f.message_type = "incoming" /\ f.conversation_assignee = None

\* lines 177-179 and 224-226: the eligibility gate
Gate(f) ==
  IF IsEligible(f)
    THEN [f EXCEPT !.pc = "send_to_botpress"]
    ELSE Return(f, "ignored", 200, "not an incoming message")

\* the resolution branch addressing the nested conversation id
ResolvedIdNested(data, conversation) == Get(conversation, "id", "")

\* line 169: conversation_id = data.get("id", "")
ResolvedId(data, conversation) == Get(data, "id", "")

\* the reopen done only for events that will pass the gate
NeedsReopenIfEligible(g, conversation) ==
  Get(conversation, "status", "") = "pending" /\ IsEligible(g)

\* line 174: conversation.get("status", "") == "pending"
NeedsReopen(g, conversation) == Get(conversation, "status", "") = "pending"

\* the classification with the pending reopen tested before the resolution
ClassifyReopenFirst(f0, body) ==
  LET f == [f0 EXCEPT !.body = body.kind] IN
  IF body.kind = "invalid" THEN Raise(f, 0, "JSONDecodeError")
  ELSE IF body.kind # "object"
    THEN Raise(f, 400, "Invalid data format: expected a JSON object")
  ELSE
    LET data == body.value
        conversation == Get(data, "conversation", EmptyDict)
        g == [f EXCEPT !.data = data,
                       !.message_type = Get(data, "message_type", ""),
                       !.content = Get(data, "content", ""),
                       !.conversation_id = Get(conversation, "id", ""),
                       !.conversation_assignee =
                          Get(Get(conversation, "meta", EmptyDict), "assignee", "")]
    IN IF NeedsReopen(g, conversation)
         THEN [g EXCEPT !.pc = "update_status"]
       ELSE IF Get(data, "event", "") = "conversation_resolved"
         THEN [g EXCEPT !.pc = "assign_bot",
                        !.conversation_id = ResolvedId(data, conversation)]
       ELSE Gate(g)

\* lines 158-178: the classification done once the body is available
Classify(f0, body) ==
  LET f == [f0 EXCEPT !.body = body.kind] IN
  IF body.kind = "invalid" THEN Raise(f, 0, "JSONDecodeError")
  ELSE IF body.kind # "object"
    THEN Raise(f, 400, "Invalid data format: expected a JSON object")
  ELSE
    LET data == body.value
        conversation == Get(data, "conversation", EmptyDict)
        g == [f EXCEPT !.data = data,
                       !.message_type = Get(data, "message_type", ""),
                       !.content = Get(data, "content", ""),
                       !.conversation_id = Get(conversation, "id", ""),
                       !.conversation_assignee =
                          Get(Get(conversation, "meta", EmptyDict), "assignee", "")]
    IN IF Get(data, "event", "") = "conversation_resolved"
         THEN [g EXCEPT !.pc = "assign_bot",
                        !.conversation_id = ResolvedId(data, conversation)]
       ELSE IF NeedsReopen(g, conversation)
         THEN [g EXCEPT !.pc = "update_status"]
       ELSE Gate(g)

\* line 157 onwards: request.json() completes and the handler runs
ParseBody(i) ==
  /\ inv[i].pc = "await_json"
  /\ CanRun(i)
  /\ \E body \in Bodies : Step(i, Classify(inv[i], body))
  /\ UNCHANGED <<cursor, delivered, tempfiles, selections>>

\* the reassignment to the bot that also rewinds the rotation
AssignConversationToBotRewinding(i) ==
  /\ inv[i].pc = "assign_bot"
  /\ CanRun(i)
  /\ \E res \in Results :
       LET f == Call(inv[i], "setAssignee", inv[i].conversation_id, None, res)
       IN Step(i, IF res = "ok"
                    THEN Return(f, "success", 200, "Conversation resolved")
                    ELSE Raise(f, 500, "Chatwoot assignment update error"))
  /\ cursor' = -1
  /\ UNCHANGED <<delivered, tempfiles, selections>>

\* line 170 and assign_conversation_to_bot
AssignConversationToBot(i) ==
  /\ inv[i].pc = "assign_bot"
  /\ CanRun(i)
  /\ \E res \in Results :
       LET f == Call(inv[i], "setAssignee", inv[i].conversation_id, None, res)
       IN Step(i, IF res = "ok"
                    THEN Return(f, "success", 200, "Conversation resolved")
                    ELSE Raise(f, 500, "Chatwoot assignment update error"))
  /\ UNCHANGED <<cursor, delivered, tempfiles, selections>>

\* lines 174-175 and update_conversation_status
UpdateConversationStatus(i) ==
  /\ inv[i].pc = "update_status"
  /\ CanRun(i)
  /\ \E res \in Results :
       LET f == Call(inv[i], "setStatus", inv[i].conversation_id, "open", res)
       IN Step(i, IF res = "ok"
                    THEN Gate(f)
                    ELSE Raise(f, 500, "Chatwoot conversation update error"))
  /\ UNCHANGED <<cursor, delivered, tempfiles, selections>>

\* the last element of the responses list
LastResponse(r) == r.responses[Len(r.responses)]

\* line 183: bp_resp = bot_response["responses"][0]
FirstResponse(r) == r.responses[1]

\* the sentinel compared in upper case
IsHandoffTextUpper(text) == text = "HANDOFF"

\* line 207: bot_text == "handoff"
IsHandoffText(text) == text = "handoff"

\* lines 182-223: what the handler does with the JSON body Botpress returned
Interpret(f, r) ==
  IF ~("responses" \in DOMAIN r /\ r.responses # << >>)
    THEN Raise(f, 500, "Invalid Botpress response format")
  ELSE
    LET bp_resp == FirstResponse(r)
        text == Get(bp_resp, "text", None)
    IN IF Get(bp_resp, "type", None) = "file"
         THEN [f EXCEPT !.pc = "download", !.file_url = Get(bp_resp, "file", << >>)]
       ELSE IF IsHandoffText(text)
         THEN [f EXCEPT !.pc = "send_notice", !.bot_text = text]
       ELSE IF Falsy(text)
         THEN Raise(f, 500, "Failed to get Botpress response")
       ELSE [f EXCEPT !.pc = "send_text", !.bot_text = text]

\* line 179 and send_to_botpress, then the branching of lines 182-223
SendToBotpress(i) ==
  /\ inv[i].pc = "send_to_botpress"
  /\ CanRun(i)
  /\ \E res \in Results :
       LET f == Call(inv[i], "converse", inv[i].conversation_id, inv[i].content, res)
       IN IF res = "ok"
            THEN \E r \in BotResponses :
                   Step(i, Interpret([f EXCEPT !.bot_response = r], r))
            ELSE Step(i, Raise(f, 500, "Botpress API error"))
  /\ UNCHANGED <<cursor, delivered, tempfiles, selections>>

\* lines 188-199: download the file and write it to a temporary file
DownloadFile(i) ==
  /\ inv[i].pc = "download"
  /\ CanRun(i)
  /\ \E res \in Results :
       IF res = "fail"
         THEN /\ Step(i, Raise(Call(inv[i], "fetch", "", inv[i].file_url, "fail"),
                               0, "ConnectionError"))
              /\ UNCHANGED tempfiles
         ELSE \E d \in Downloads :
                LET f == Call(inv[i], "fetch", "", inv[i].file_url, d.status)
                IN IF d.status # "200"
                     THEN /\ Step(i, Raise(f, 500, "Failed to download file from Botpress"))
                          /\ UNCHANGED tempfiles
                     ELSE /\ Step(i, [f EXCEPT
                                 !.pc = "send_attachment",
                                 !.mime_type = Get(d.headers, "ContentType",
                                                   "application/octet-stream"),
                                 !.filename = Basename(f.file_url),
                                 !.temp_file_path = f.eid])
                          /\ tempfiles' = tempfiles \cup {inv[i].eid}
  /\ UNCHANGED <<cursor, delivered, selections>>

\* lines 201-203 and send_attachment_to_chatwoot
SendAttachmentToChatwoot(i) ==
  /\ inv[i].pc = "send_attachment"
  /\ CanRun(i)
  /\ \E res \in Results :
       LET f == Call(inv[i], "sendAttachment", inv[i].conversation_id,
                     [file_path |-> inv[i].temp_file_path,
                      file_name |-> inv[i].filename,
                      mime_type |-> inv[i].mime_type], res)
       IN IF res = "ok"
            THEN /\ tempfiles' = tempfiles \ {inv[i].temp_file_path}
                 /\ Step(i, Return(f, "success", 200, "Attachment sent successfully"))
            ELSE /\ UNCHANGED tempfiles
                 /\ Step(i, Raise(f, 0, "HTTPError"))
  /\ UNCHANGED <<cursor, delivered, selections>>

HandoffMessage == "Please wait while I connect you to a human agent"

\* the handoff going on whatever the notice call answered
AfterNoticeUnchecked(f, res) == [f EXCEPT !.pc = "list_members"]

\* lines 209-210 with lines 69-72: send_to_chatwoot returns True and the
\* handler goes on to the assignment, or it raises
AfterNotice(f, res) ==
  IF res = "ok" THEN [f EXCEPT !.pc = "list_members"]
                ELSE Raise(f, 500, "Chatwoot API error")

\* lines 207-209: the handoff notice, sent with send_to_chatwoot
SendHandoffNotice(i) ==
  /\ inv[i].pc = "send_notice"
  /\ CanRun(i)
  /\ \E res \in Results :
       LET f == Call(inv[i], "sendMessage", inv[i].conversation_id, HandoffMessage, res)
       IN Step(i, AfterNotice(f, res))
  /\ UNCHANGED <<cursor, delivered, tempfiles, selections>>

\* an empty roster answered as "no agent", the way a selector returning None would
OnMembersNoneForEmpty(f, members) ==
  IF members = << >>
    THEN Raise(f, 500, "No available human agent found")
    ELSE [f EXCEPT !.pc = "rotate_read", !.members = members]

\* lines 112-114: members = payload; an empty list raises HTTPException(500),
\* which the `except RequestException` of line 117 lets through
OnMembers(f, members) ==
  IF members = << >>
    THEN Raise(f, 500, "No inbox members found")
    ELSE [f EXCEPT !.pc = "rotate_read", !.members = members]

\* lines 109-114: get_available_human_agent fetches the inbox members
ListInboxMembers(i) ==
  /\ inv[i].pc = "list_members"
  /\ CanRun(i)
  /\ \E res \in Results :
       IF res = "fail"
         THEN Step(i, Raise(Call(inv[i], "listInboxMembers", "", "", "fail"),
                            500, "Error fetching inbox members"))
         ELSE \E members \in Rosters :
                LET f == Call(inv[i], "listInboxMembers", "", "", "ok")
                IN Step(i, OnMembers(f, members))
  /\ UNCHANGED <<cursor, delivered, tempfiles, selections>>

\* the rotation without the increment
NextIndexNoIncrement(seen, n) == seen % n

\* the rotation without the wrap-around
NextIndexNoWrap(seen, n) == seen + 1

\* line 115: (last_assigned_agent_index + 1) % len(members)
NextIndex(seen, n) == (seen + 1) % n

\* line 115, right-hand side: the global cursor is read
RotateRead(i) ==
  /\ inv[i].pc = "rotate_read"
  /\ CanRun(i)
  /\ Step(i, [inv[i] EXCEPT !.pc = "rotate_write", !.seen = cursor])
  /\ UNCHANGED <<cursor, delivered, tempfiles, selections>>

\* line 115, the store: last_assigned_agent_index = (read value + 1) % len(members)
RotateWrite(i) ==
  /\ inv[i].pc = "rotate_write"
  /\ CanRun(i)
  /\ cursor' = NextIndex(inv[i].seen, Len(inv[i].members))
  /\ Step(i, [inv[i] EXCEPT !.pc = "rotate_index",
                             !.calls = Append(@, [op |-> "advance", conv |-> "",
                                                  arg |-> "", res |-> "ok"])])
  /\ UNCHANGED <<delivered, tempfiles, selections>>

\* line 116 and lines 125-127: members[last_assigned_agent_index].get("id"),
\* indexing with the global as it is now, then the None check of the caller
RotateIndex(i) ==
  /\ inv[i].pc = "rotate_index"
  /\ CanRun(i)
  /\ LET f == inv[i]
         inRange == cursor \in 0..(Len(f.members) - 1)
         id == IF inRange THEN Get(f.members[cursor + 1], "id", None) ELSE None
     IN /\ Step(i, IF ~inRange THEN Raise(f, 0, "IndexError")
                   ELSE IF id = None
                     THEN Raise(f, 500, "No available human agent found")
                   ELSE [f EXCEPT !.pc = "assign_human", !.human_agent_id = id])
        /\ selections' = Append(selections,
             [eid |-> f.eid, members |-> f.members, seen |-> f.seen,
              index |-> cursor, agent |-> id,
              waiting |-> {inv[j].eid : j \in {k \in Slots : inv[k].pc = "await_json"}}])
  /\ UNCHANGED <<cursor, delivered, tempfiles>>

\* the assignment answered with success whatever the platform said
AfterAssignIgnoringResult(f, res) ==
  Return(f, "success", 200, "Handoff processed successfully")

\* lines 131-135 and 210-211: assign_conversation_to_human returns True and
\* the handler answers success, or it raises
AfterAssign(f, res) ==
  IF res = "ok" THEN Return(f, "success", 200, "Handoff processed successfully")
                ELSE Raise(f, 500, "Chatwoot assignment update error")

\* lines 128-135 and line 210-211: assign the conversation to the selected agent
AssignConversationToHuman(i) ==
  /\ inv[i].pc = "assign_human"
  /\ CanRun(i)
  /\ \E res \in Results :
       LET f == Call(inv[i], "setAssignee", inv[i].conversation_id,
                     inv[i].human_agent_id, res)
       IN Step(i, AfterAssign(f, res))
  /\ UNCHANGED <<cursor, delivered, tempfiles, selections>>

\* lines 216-219: relay the text of the first response with send_to_chatwoot
SendToChatwoot(i) ==
  /\ inv[i].pc = "send_text"
  /\ CanRun(i)
  /\ \E res \in Results :
       LET f == Call(inv[i], "sendMessage", inv[i].conversation_id, inv[i].bot_text, res)
       IN Step(i, IF res = "ok"
                    THEN Return(f, "success", 200, "Message processed successfully")
                    ELSE Raise(f, 500, "Chatwoot API error"))
  /\ UNCHANGED <<cursor, delivered, tempfiles, selections>>

\* a `requests` call made without timeout never returns: the frame stays
\* inside the call, on the event-loop thread
Hang(i) ==
  /\ inv[i].pc \in CallSites
  /\ CanRun(i)
  /\ Step(i, [inv[i] EXCEPT !.hung = TRUE])
  /\ UNCHANGED <<cursor, delivered, tempfiles, selections>>

\* the handler has returned: the response is handed to the server, the frame
\* is dropped and the event loop is free again
Respond(i) ==
  /\ inv[i].pc = "done"
  /\ Step(i, Blank)
  /\ UNCHANGED <<cursor, delivered, tempfiles, selections>>

Next ==
  \E i \in Slots :
    \/ Receive(i)
    \/ ParseBody(i)
    \/ AssignConversationToBot(i)
    \/ UpdateConversationStatus(i)
    \/ SendToBotpress(i)
    \/ DownloadFile(i)
    \/ SendAttachmentToChatwoot(i)
    \/ SendHandoffNotice(i)
    \/ ListInboxMembers(i)
    \/ RotateRead(i)
    \/ RotateWrite(i)
    \/ RotateIndex(i)
    \/ AssignConversationToHuman(i)
    \/ SendToChatwoot(i)
    \/ Hang(i)
    \/ Respond(i)

Spec == Init /\ [][Next]_vars

\* the values the cursor takes over the life of the process: -1 until the
\* first selection, then an index of some roster
CursorValues == -1..(MaxRoster - 1)

\* the service at any point of its life with no request in flight
InitAnyCursor ==
  /\ cursor \in CursorValues
  /\ inv = [i \in Slots |-> Blank]
  /\ delivered = 0
  /\ tempfiles = {}
  /\ selections = << >>

SpecAnyCursor == InitAnyCursor /\ [][Next]_vars

(* ===================================================================== *)
(* Vocabulary of the properties                                            *)
(* ===================================================================== *)
\* the invocation has reached a terminal outcome
Done(f) == f.pc = "done"

\* the invocation got a JSON object as its body
WellFormed(f) == f.body = "object"

\* the event is a resolution event
IsResolution(f) == WellFormed(f) /\ Get(f.data, "event", "") = "conversation_resolved"

\* the conversation object of the payload, and its fields as the payload has them
ConversationOf(f) == Get(f.data, "conversation", EmptyDict)
StatusOf(f) == Get(ConversationOf(f), "status", "")
HasAssigneeKey(f) == "assignee" \in DOMAIN Get(ConversationOf(f), "meta", EmptyDict)
AssigneeOf(f) == Get(ConversationOf(f), "meta", EmptyDict).assignee

\* no human owns the conversation: the assignee is missing or null
Unassigned(f) == ~HasAssigneeKey(f) \/ AssigneeOf(f) = None

\* the positions in the call log of the calls of one operation
CallsTo(f, op) == {k \in DOMAIN f.calls : f.calls[k].op = op}
Count(f, op) == Cardinality(CallsTo(f, op))

\* the result of the only call of an operation ("none" when there is not exactly one)
ResultOf(f, op) ==
  IF Count(f, op) = 1 THEN f.calls[CHOOSE k \in CallsTo(f, op) : TRUE].res ELSE "none"

Success(f) == f.outcome.status = "success" /\ f.outcome.http = 200
Ignored(f) == f.outcome.status = "ignored" /\ f.outcome.http = 200
Error(f) == f.outcome.status = "error" /\ f.outcome.http = 500

\* the event went past the resolution check and the pending reopen
ReachedGate(f) ==
  /\ WellFormed(f) /\ ~IsResolution(f)
  /\ f.pc \notin Parked
  /\ f.pc # "update_status"
  /\ ResultOf(f, "setStatus") # "fail"

\* the reply variants of the data model, read off the raw Botpress answer
MediaKinds == {"file", "image", "audio", "video"}
HasResponses(r) == "responses" \in DOMAIN r /\ r.responses # << >>
ReplyType(r) == Get(r.responses[1], "type", None)
ReplyText(r) == Get(r.responses[1], "text", None)
IsMedia(r) == HasResponses(r) /\ ReplyType(r) \in MediaKinds
IsHandoff(r) == HasResponses(r) /\ ~IsMedia(r) /\ ReplyText(r) = "handoff"
\* the text is absent (read as null) or the empty string
NoText(x) == x \in {None, ""}
IsText(r) == HasResponses(r) /\ ~IsMedia(r) /\ ~NoText(ReplyText(r)) /\ ReplyText(r) # "handoff"

\* the automation turn answered, and the reply is the frame's bot_response
Answered(f) == ResultOf(f, "converse") = "ok"

(* ===================================================================== *)
(* C1                                                                      *)
(* ===================================================================== *)
\* C1 (as stated): every invocation handling a resolution event has issued
\* setAssignee(id, None) and has ended with Success, whatever the platform
\* answered.
C1_AlwaysSuccess ==
  \A i \in Slots :
    (Done(inv[i]) /\ IsResolution(inv[i])) =>
      /\ Count(inv[i], "setAssignee") = 1
      /\ Success(inv[i])

\* C1 (amended): every invocation handling a resolution event, whatever its
\* message_type, status and assignee, issues exactly the call
\* setAssignee(top-level id, None); when it ends, its outcome is Success if
\* that call succeeded and Error (HTTP 500) if it failed.
C1_ResolutionReassigns ==
  \A i \in Slots :
    (Done(inv[i]) /\ IsResolution(inv[i])) =>
      /\ Len(inv[i].calls) = 1
      /\ inv[i].calls[1].op = "setAssignee"
      /\ inv[i].calls[1].conv = Get(inv[i].data, "id", "")
      /\ inv[i].calls[1].arg = None
      /\ (inv[i].calls[1].res = "ok" => Success(inv[i]))
      /\ (inv[i].calls[1].res = "fail" => Error(inv[i]))

\* a resolution event that is also incoming, unassigned and pending has been
\* answered with Success after its reassignment
C1_Witness ==
  \E i \in Slots :
    /\ Done(inv[i]) /\ IsResolution(inv[i])
    /\ inv[i].message_type = "incoming"
    /\ inv[i].conversation_assignee = None
    /\ StatusOf(inv[i]) = "pending"
    /\ Get(inv[i].data, "id", "") # Get(ConversationOf(inv[i]), "id", "")
    /\ Success(inv[i])

(* ===================================================================== *)
(* C2                                                                      *)
(* ===================================================================== *)
\* C2: an invocation handling a non-resolution event that is not incoming, or
\* that carries an assignee, never calls converse and ends Ignored, for every
\* conversation status and every outcome of the calls made before the gate.
C2_IneligibleIgnored ==
  \A i \in Slots :
    LET f == inv[i] IN
    (WellFormed(f) /\ ~IsResolution(f)
       /\ (Get(f.data, "message_type", "") # "incoming"
             \/ (HasAssigneeKey(f) /\ AssigneeOf(f) # None))) =>
      /\ Count(f, "converse") = 0
      /\ f.pc # "send_to_botpress"
      /\ (Done(f) => Ignored(f))

(* ===================================================================== *)
(* C3                                                                      *)
(* ===================================================================== *)
\* C3: an invocation handling a non-resolution incoming event whose
\* conversation has no assignee (the key missing, or null) and that got past
\* the pending reopen calls converse(conversationRef, content) exactly once.
C3_UnassignedEligible ==
  \A i \in Slots :
    LET f == inv[i] IN
    (Done(f) /\ ReachedGate(f)
       /\ Get(f.data, "message_type", "") = "incoming" /\ Unassigned(f)) =>
      /\ Count(f, "converse") = 1
      /\ ~Ignored(f)

(* ===================================================================== *)
(* C4                                                                      *)
(* ===================================================================== *)
\* C4: when the automation reply is Text(body), body non-empty and not
\* "handoff", the invocation ends having called sendMessage(conversationRef,
\* body) exactly once, with the body of the first response unchanged, and no
\* setAssignee, listInboxMembers or sendAttachment; its outcome is Success
\* (HTTP 200) if that sendMessage succeeded and Error otherwise.
C4_TextRelayed ==
  \A i \in Slots :
    LET f == inv[i] IN
    (Done(f) /\ Answered(f) /\ IsText(f.bot_response)) =>
      /\ Count(f, "sendMessage") = 1
      /\ \A k \in CallsTo(f, "sendMessage") :
           /\ f.calls[k].arg = f.bot_response.responses[1].text
           /\ f.calls[k].conv = ConversationOf(f).id
      /\ Count(f, "setAssignee") = 0
      /\ Count(f, "listInboxMembers") = 0
      /\ Count(f, "sendAttachment") = 0
      /\ (Success(f) <=> ResultOf(f, "sendMessage") = "ok")
      /\ (~Success(f) => Error(f))

\* a reply of two text responses has been relayed: the first one was sent
C4_Witness ==
  \E i \in Slots :
    /\ Done(inv[i]) /\ Answered(inv[i]) /\ IsText(inv[i].bot_response)
    /\ Len(inv[i].bot_response.responses) = 2
    /\ Success(inv[i])

(* ===================================================================== *)
(* C5                                                                      *)
(* ===================================================================== *)
\* the calls an invocation made after its converse call
AfterConverse(f) ==
  LET k0 == CHOOSE k \in CallsTo(f, "converse") : TRUE
  IN SubSeq(f.calls, k0 + 1, Len(f.calls))

Ops(t) == [k \in 1..Len(t) |-> t[k].op]

IsPrefix(s, t) == Len(s) <= Len(t) /\ \A k \in 1..Len(s) : s[k] = t[k]

OnHandoffPath(f) == f.pc \notin Parked /\ Answered(f) /\ IsHandoff(f.bot_response)

\* C5: on the handoff path the calls are ordered sendMessage(notice),
\* listInboxMembers, cursor advance, setAssignee(conv, agent); nothing follows
\* the notice unless it succeeded, and a failed notice ends the invocation in
\* Error with no roster call, no cursor advance and no setAssignee.
C5_HandoffOrdered ==
  \A i \in Slots :
    LET f == inv[i] IN
    OnHandoffPath(f) =>
      LET t == AfterConverse(f) IN
      /\ IsPrefix(Ops(t), <<"sendMessage", "listInboxMembers", "advance", "setAssignee">>)
      /\ (Len(t) >= 1 => t[1].arg = HandoffMessage /\ t[1].conv = f.conversation_id)
      /\ (Len(t) >= 2 => t[1].res = "ok")
      /\ (Len(t) >= 4 => t[4].arg # None /\ t[4].arg = f.human_agent_id)
      /\ ((Len(t) >= 1 /\ t[1].res = "fail") => Done(f) /\ Error(f) /\ Len(t) = 1)
      /\ (Done(f) /\ Success(f) => Len(t) = 4 /\ t[4].res = "ok")

\* Scenario B: the notice was sent, agent 5 of roster [5, 9] was selected from
\* cursor -1 and assigned, and the invocation ended with Success
C5_Witness ==
  \E i \in Slots :
    /\ OnHandoffPath(inv[i]) /\ Done(inv[i]) /\ Success(inv[i])
    /\ inv[i].members = RosterOf(2)
    /\ inv[i].seen = -1
    /\ inv[i].calls[Len(inv[i].calls)] =
         [op |-> "setAssignee", conv |-> "42", arg |-> "5", res |-> "ok"]

(* ===================================================================== *)
(* C6                                                                      *)
(* ===================================================================== *)
\* the selections j .. j+R-1 all used the roster of selection j, of size R
FixedRosterRun(j) ==
  LET M == selections[j].members IN
  /\ j + Len(M) - 1 <= Len(selections)
  /\ \A k \in 0..(Len(M) - 1) : selections[j + k].members = M

\* C6: R consecutive selections against a fixed roster of size R, starting
\* from any cursor value c, return every member of the roster exactly once, in
\* roster order starting at index (c + 1) mod R; from the initial cursor -1 the
\* first selection returns roster[0].
C6_RoundRobin ==
  /\ \A j \in 1..Len(selections) :
       FixedRosterRun(j) =>
         LET M == selections[j].members
             R == Len(M)
             c == selections[j].seen
         IN /\ \A k \in 0..(R - 1) :
                 selections[j + k].agent = Get(M[((c + 1 + k) % R) + 1], "id", None)
            /\ {selections[j + k].index : k \in 0..(R - 1)} = 0..(R - 1)
  /\ (Len(selections) >= 1 /\ selections[1].seen = -1) =>
       selections[1].agent = Get(selections[1].members[1], "id", None)

\* two consecutive selections against roster [5, 9] that started from cursor 0
\* returned 9 and then 5
C6_Witness ==
  /\ Len(selections) >= 2
  /\ selections[1].members = RosterOf(2)
  /\ FixedRosterRun(1)
  /\ selections[1].seen = 0
  /\ selections[1].agent = "9"
  /\ selections[2].agent = "5"

(* ===================================================================== *)
(* C7                                                                      *)
(* ===================================================================== *)
\* every selection so far used the same roster
SameRoster == \A k \in 1..Len(selections) : selections[k].members = selections[1].members

\* C7: with invocations in flight concurrently, N selections against a fixed
\* roster of size R leave the cursor at (-1 + N) mod R: no update is lost, the
\* k-th selection takes index (k - 1) mod R, and consecutive selections never
\* take the same index nor skip one.
C7_NoLostUpdate ==
  (/\ Len(selections) >= 1
   /\ SameRoster
   /\ \A i \in Slots : inv[i].pc # "rotate_index") =>
    LET R == Len(selections[1].members)
        N == Len(selections)
    IN /\ cursor = (N - 1) % R
       /\ \A k \in 1..N : selections[k].index = (k - 1) % R
       /\ \A k \in 1..(N - 1) :
            /\ selections[k + 1].index = (selections[k].index + 1) % R
            /\ (R >= 2 => selections[k + 1].agent # selections[k].agent)

\* two handoffs against roster [5, 9], the second already in flight (waiting
\* for its body) while the first one selected
C7_Witness ==
  /\ Len(selections) = 2
  /\ SameRoster
  /\ selections[1].members = RosterOf(2)
  /\ selections[2].eid \in selections[1].waiting

(* ===================================================================== *)
(* C8                                                                      *)
(* ===================================================================== *)
\* C8: for a non-resolution event in a pending conversation a failed
\* setStatus is not fatal: the invocation still reaches the gate, so it ends
\* Ignored or goes on to the automation turn, never with the setStatus error.
C8_StatusFailureTolerated ==
  \A i \in Slots :
    LET f == inv[i] IN
    (Done(f) /\ WellFormed(f) /\ ~IsResolution(f) /\ StatusOf(f) = "pending"
       /\ ResultOf(f, "setStatus") = "fail") =>
      /\ (Ignored(f) \/ Count(f, "converse") = 1)
      /\ f.outcome.message # "Chatwoot conversation update error"

(* ===================================================================== *)
(* C9                                                                      *)
(* ===================================================================== *)
\* C9: a body that is JSON but not an object makes no outbound call and is
\* answered with an error of HTTP status 400, not the 500 of processing errors.
C9_MalformedIs400 ==
  \A i \in Slots :
    LET f == inv[i] IN
    (Done(f) /\ f.body = "array") =>
      /\ f.calls = << >>
      /\ f.outcome.status = "error"
      /\ f.outcome.http = 400

(* ===================================================================== *)
(* C10                                                                     *)
(* ===================================================================== *)
\* the URL a media response of the given kind carries under its kind's key
MediaUrl(r) ==
  LET bp == r.responses[1]
  IN CASE bp.type = "file" -> bp.file
       [] bp.type = "image" -> bp.image
       [] bp.type = "audio" -> bp.audio
       [] bp.type = "video" -> bp.video

\* C10: a first response of type file, image, audio or video is treated as
\* Media: the bytes are fetched, sendAttachment is called with the file name
\* taken from the URL, sendMessage is never called, and the invocation ends
\* with Success when sendAttachment succeeds.
C10_MediaKindsUploaded ==
  \A i \in Slots :
    LET f == inv[i] IN
    (Done(f) /\ Answered(f) /\ IsMedia(f.bot_response)) =>
      /\ Count(f, "fetch") = 1
      /\ Count(f, "sendMessage") = 0
      /\ (ResultOf(f, "fetch") = "200" =>
            /\ Count(f, "sendAttachment") = 1
            /\ \A k \in CallsTo(f, "sendAttachment") :
                 f.calls[k].arg.file_name = Basename(MediaUrl(f.bot_response)))
      /\ (ResultOf(f, "sendAttachment") = "ok" => Success(f))

(* ===================================================================== *)
(* C11                                                                     *)
(* ===================================================================== *)
\* the handoff reached the roster fetch, which answered with an empty list
EmptyRosterHandoff(f) ==
  /\ OnHandoffPath(f) /\ Done(f)
  /\ ResultOf(f, "listInboxMembers") = "ok"
  /\ f.members = << >>
  /\ Count(f, "advance") = 0

C12_TempFileReleased ==
  \A i \in Slots :
    (Done(inv[i]) /\ inv[i].temp_file_path # 0) =>
      inv[i].temp_file_path \notin tempfiles

(* ===================================================================== *)
(* C13                                                                     *)
(* ===================================================================== *)
\* the outbound calls the claim lists
AbortingOps ==
  {"converse", "fetch", "sendMessage", "sendAttachment", "listInboxMembers", "setAssignee"}

\* an outbound call came back as a failure (an exception, or a non-200 download)
Failed(c) == c.op \in AbortingOps /\ c.res \notin {"ok", "200"}

\* the last outbound call of the log (the cursor store is no outbound call)
Outbound(f) == {k \in DOMAIN f.calls : f.calls[k].op # "advance"}
LastOutbound(f) == f.calls[CHOOSE k \in Outbound(f) : \A m \in Outbound(f) : m <= k]

\* C13: a failed outbound call (converse, blob fetch, sendMessage,
\* sendAttachment, listInboxMembers, setAssignee) is the last call of its
\* invocation, is not issued again, and the invocation ends with status
\* "error", HTTP 500; an invocation ends with Success only if the last
\* platform call of its path succeeded.
C13_FailureAborts ==
  \A i \in Slots :
    LET f == inv[i] IN
    /\ \A k \in DOMAIN f.calls :
         Failed(f.calls[k]) =>
           /\ k = Len(f.calls)
           /\ Done(f) /\ Error(f)
           /\ \A m \in DOMAIN f.calls :
                (m # k) => ~(f.calls[m].op = f.calls[k].op /\ f.calls[m].conv = f.calls[k].conv
                              /\ f.calls[m].arg = f.calls[k].arg)
    /\ (Done(f) /\ Success(f)) =>
         /\ Outbound(f) # {}
         /\ LastOutbound(f).res = "ok"
         /\ LastOutbound(f).op \in {"setAssignee", "sendMessage", "sendAttachment"}

\* a handoff whose notice went out and whose assignment call then failed has
\* ended in Error with that call as its last one
C13_Witness ==
  \E i \in Slots :
    /\ Done(inv[i]) /\ Error(inv[i])
    /\ Len(inv[i].calls) = 5
    /\ inv[i].calls[2].op = "sendMessage" /\ inv[i].calls[2].res = "ok"
    /\ inv[i].calls[5].op = "setAssignee" /\ inv[i].calls[5].res = "fail"

(* ===================================================================== *)
(* C14                                                                     *)
(* ===================================================================== *)
\* C14: an outbound call that hangs stalls only the invocation that issued
\* it: while one invocation is blocked inside an outbound call, every other
\* event already delivered can still be taken up and processed.
C14_HangIsLocal ==
  \A i \in Slots : \A j \in Slots \ {i} :
    (inv[i].hung /\ inv[j].pc = "await_json") => ENABLED ParseBody(j)

(* ===================================================================== *)
(* C15                                                                     *)
(* ===================================================================== *)
\* C15: the resolution check short-circuits the pipeline: an invocation
\* handling a resolution event only ever waits in, or has made, the single
\* call setAssignee(top-level id, None); it never issues setStatus, converse,
\* sendMessage, sendAttachment or listInboxMembers, even for a pending
\* conversation and an incoming unassigned message.
C15_ResolutionShortCircuits ==
  \A i \in Slots :
    LET f == inv[i] IN
    (IsResolution(f) /\ f.pc \notin Parked) =>
      /\ f.pc \in {"assign_bot", "done"}
      /\ (f.pc = "assign_bot" => f.calls = << >>)
      /\ (f.pc = "done" => Len(f.calls) = 1)
      /\ \A k \in DOMAIN f.calls :
           /\ f.calls[k].op = "setAssignee"
           /\ f.calls[k].arg = None
           /\ f.calls[k].conv = f.data.id
      /\ \A op \in {"setStatus", "converse", "sendMessage", "sendAttachment",
                    "listInboxMembers", "fetch", "advance"} : Count(f, op) = 0

\* a resolution event of a pending conversation with an incoming, unassigned
\* message has ended after its one reassignment call, which the platform failed
C15_Witness ==
  \E i \in Slots :
    /\ Done(inv[i]) /\ IsResolution(inv[i])
    /\ StatusOf(inv[i]) = "pending"
    /\ Get(inv[i].data, "message_type", "") = "incoming"
    /\ HasAssigneeKey(inv[i]) /\ AssigneeOf(inv[i]) = None
    /\ inv[i].calls = << [op |-> "setAssignee", conv |-> "7", arg |-> None, res |-> "fail"] >>

(* ===================================================================== *)
(* C16                                                                     *)
(* ===================================================================== *)
\* the invocation handles a non-resolution event and is past the pending reopen
PastReopen(f) ==
  WellFormed(f) /\ ~IsResolution(f) /\ f.pc \notin (Parked \cup {"update_status"})

\* C16: for a non-resolution event of a pending conversation
\* setStatus(conversationRef, "open") is called exactly once, as the first
\* call and so before the gate and before any converse, whether or not the
\* event is eligible; for any other status it is never called.
C16_PendingReopened ==
  \A i \in Slots :
    LET f == inv[i] IN
    /\ (PastReopen(f) /\ StatusOf(f) = "pending") =>
         /\ Count(f, "setStatus") = 1
         /\ f.calls[1] \in { [op |-> "setStatus", conv |-> ConversationOf(f).id,
                              arg |-> "open", res |-> r] : r \in Results }
    /\ (WellFormed(f) /\ ~IsResolution(f) /\ f.pc = "update_status") =>
         /\ StatusOf(f) = "pending"
         /\ f.calls = << >>
    /\ (WellFormed(f) /\ StatusOf(f) # "pending") =>
         /\ Count(f, "setStatus") = 0
         /\ f.pc # "update_status"

\* an outgoing event of a pending conversation has been ignored after the
\* conversation was reopened
C16_Witness ==
  \E i \in Slots :
    /\ Done(inv[i]) /\ Ignored(inv[i])
    /\ StatusOf(inv[i]) = "pending"
    /\ Get(inv[i].data, "message_type", "") = "outgoing"
    /\ inv[i].calls = << [op |-> "setStatus", conv |-> "42", arg |-> "open", res |-> "ok"] >>

(* ===================================================================== *)
(* C17                                                                     *)
(* ===================================================================== *)
\* the Empty reply: no responses, or a first response that is not media and
\* has an empty or absent text
IsEmpty(r) == ~HasResponses(r) \/ (~IsMedia(r) /\ NoText(ReplyText(r)))

\* C17: when the automation reply is Empty the invocation ends with Error
\* (HTTP 500) right after the converse call: no sendMessage, sendAttachment,
\* listInboxMembers or setAssignee call is issued.
C17_EmptyReplyError ==
  \A i \in Slots :
    LET f == inv[i] IN
    (f.pc \notin Parked /\ Answered(f) /\ IsEmpty(f.bot_response)) =>
      /\ Done(f) /\ Error(f)
      /\ AfterConverse(f) = << >>
      /\ \A op \in {"sendMessage", "sendAttachment", "listInboxMembers",
                    "setAssignee", "fetch", "advance"} : Count(f, op) = 0

\* a reply whose first response has the empty string as text has ended the
\* invocation in Error
C17_Witness ==
  \E i \in Slots :
    /\ Done(inv[i]) /\ Error(inv[i]) /\ Answered(inv[i])
    /\ HasResponses(inv[i].bot_response)
    /\ ReplyText(inv[i].bot_response) = ""

(* ===================================================================== *)
(* C18                                                                     *)
(* ===================================================================== *)
\* the frame is a handoff that has fetched a non-empty roster and is storing
\* the cursor
StoringCursor(f) ==
  /\ f.pc = "rotate_write"
  /\ OnHandoffPath(f)
  /\ f.members # << >>
  /\ f.calls[Len(f.calls)] = [op |-> "listInboxMembers", conv |-> "", arg |-> "", res |-> "ok"]

\* the invocation in slot i ends in this step
Ends(i) == inv[i].pc # "done" /\ inv'[i].pc = "done"

\* C18: the call a resolution invocation issues is a function of its event
\* alone, setAssignee(top-level id, None), so a replay issues the same call;
\* a resolution leaves the cursor, the selection history and the temporary
\* files as they were, and the cursor is changed by no step other than the
\* cursor store of a handoff invocation that obtained a non-empty roster:
\* invocations that end as resolution, ignored, text, media or malformed
\* input never made such a step.
C18_OnlyHandoffMovesCursor ==
  [][ /\ (cursor' # cursor) => \E i \in Slots : StoringCursor(inv[i])
      /\ \A i \in Slots :
           Ends(i) =>
             /\ cursor' = cursor
             /\ (IsResolution(inv'[i]) =>
                   /\ selections' = selections /\ tempfiles' = tempfiles
                   /\ Len(inv'[i].calls) = 1
                   /\ inv'[i].calls[1].op = "setAssignee"
                   /\ inv'[i].calls[1].conv = inv'[i].data.id
                   /\ inv'[i].calls[1].arg = None)
             /\ (Count(inv'[i], "advance") = 0 <=>
                   ~(OnHandoffPath(inv'[i]) /\ inv'[i].members # << >>))
    ]_vars

\* after a handoff advanced the cursor, a second event, a resolution, has
\* ended and the cursor still is where the handoff left it
C18_Witness ==
  \E i \in Slots :
    /\ Done(inv[i]) /\ IsResolution(inv[i])
    /\ inv[i].eid = 2
    /\ Len(selections) = 1
    /\ cursor = selections[1].index
    /\ cursor # -1

(* ===================================================================== *)
(* C19                                                                     *)
(* ===================================================================== *)
\* no invocation is between its cursor store and the return of the selection
NoSelectionInProgress == \A i \in Slots : inv[i].pc # "rotate_index"

\* C19: each selection sets the cursor to (previous cursor + 1) mod (size of
\* the roster fetched by that call), whether or not the setAssignee that
\* follows succeeds; the cursor is -1 or a valid index of the roster of the
\* latest selection, and the id returned is that of the member at that index
\* of the roster fetched by the same call, never an out-of-range access.
C19_CursorFollowsRoster ==
  /\ \A k \in 1..Len(selections) :
       LET s == selections[k] IN
       /\ s.members # << >>
       /\ s.index = (s.seen + 1) % Len(s.members)
       /\ s.index \in 0..(Len(s.members) - 1)
       /\ s.agent = Get(s.members[s.index + 1], "id", None)
       /\ (k > 1 => s.seen = selections[k - 1].index)
  /\ NoSelectionInProgress =>
       IF selections = << >>
         THEN cursor \in CursorValues
         ELSE cursor = selections[Len(selections)].index
  /\ (cursor = -1 => selections = << >>)
  /\ \A i \in Slots :
       /\ inv[i].outcome.message # "IndexError"
       /\ (Done(inv[i]) /\ Count(inv[i], "setAssignee") = 1 /\ OnHandoffPath(inv[i])) =>
            /\ selections # << >>
            /\ selections[Len(selections)].eid = inv[i].eid
            /\ cursor = selections[Len(selections)].index
            /\ inv[i].human_agent_id = selections[Len(selections)].agent

\* a selection against a one-member roster made with the cursor at 1 (left by
\* a two-member roster) wrapped to index 0, and the cursor stays there although
\* the assignment call that followed failed
C19_Witness ==
  \E i \in Slots :
    /\ Done(inv[i]) /\ Error(inv[i]) /\ OnHandoffPath(inv[i])
    /\ ResultOf(inv[i], "setAssignee") = "fail"
    /\ Len(selections) >= 1
    /\ selections[Len(selections)].seen = 1
    /\ Len(selections[Len(selections)].members) = 1
    /\ cursor = 0

(* ===================================================================== *)
(* C20                                                                     *)
(* ===================================================================== *)
\* the first response of the reply has the text "handoff"
SaysHandoff(f) ==
  /\ f.pc \notin Parked /\ Answered(f) /\ HasResponses(f.bot_response)
  /\ ReplyText(f.bot_response) = "handoff"

\* C20: the bridge never calls sendMessage with the text "handoff"; when the
\* reply text is "handoff" the only message posted is the fixed notice, and
\* the invocation never reaches the text relay, whichever way the handoff
\* branch ends.
C20_SentinelNeverRelayed ==
  \A i \in Slots :
    LET f == inv[i] IN
    /\ \A k \in CallsTo(f, "sendMessage") : f.calls[k].arg # "handoff"
    /\ SaysHandoff(f) =>
         /\ f.pc # "send_text"
         /\ Count(f, "sendMessage") <= 1
         /\ \A k \in CallsTo(f, "sendMessage") : f.calls[k].arg = HandoffMessage
         /\ (f.pc \notin {"send_notice", "done"} => ResultOf(f, "sendMessage") = "ok")

\* a handoff whose roster fetch failed has ended having posted the notice only
C20_Witness ==
  \E i \in Slots :
    /\ SaysHandoff(inv[i]) /\ Done(inv[i]) /\ Error(inv[i])
    /\ ResultOf(inv[i], "listInboxMembers") = "fail"
    /\ Count(inv[i], "sendMessage") = 1

====
